---------------------------- MODULE Spec2Model ----------------------------
(***************************************************************************)
(* A model of neuralxc's symmetrizer module (symmetrizer/symmetrizer.py):  *)
(* the Clebsch-Gordan table built by cg_matrix, the Casimir and bispectrum *)
(* reductions, and the dispatch of Symmetrizer.get_symmetrized over        *)
(* species-to-tensor mappings.                                             *)
(*                                                                         *)
(* Numbers.  Coefficient tensors hold Gaussian integers <<re, im>>.        *)
(* A Clebsch-Gordan coefficient is kept exactly, as (num/den)*sqrt(rad)    *)
(* with rad squarefree.  A returned feature is a real number counted in    *)
(* units of 10^-Decimals (4.0 is 400000); the bispectrum values are        *)
(* rounded to that grid by the code itself, the Casimir values of integer  *)
(* tensors lie on it.                                                      *)
(***************************************************************************)
EXTENDS Integers, Sequences, FiniteSets, TLC

(***************************************************************************)
(* Bounds of the model.                                                    *)
(***************************************************************************)
MaxL == 2            \* angular channels of a reduced tensor: n_l in 1..MaxL
MaxN == 2            \* radial channels: n in 1..MaxN
MaxSamples == 2      \* rows of a tensor after c.reshape(-1, c_shape[-1])
MaxList == 2         \* length of a list of mappings given to get_symmetrized

(***************************************************************************)
(* Elementary arithmetic.                                                  *)
(***************************************************************************)
Abs(x) == IF x < 0 THEN -x ELSE x
Max(a, b) == IF a > b THEN a ELSE b
Min(a, b) == IF a < b THEN a ELSE b

RECURSIVE Gcd(_, _)
Gcd(a, b) == IF b = 0 THEN Abs(a) ELSE Gcd(b, a % Abs(b))

RECURSIVE Fact(_)
Fact(n) == IF n <= 0 THEN 1 ELSE n * Fact(n - 1)

RECURSIVE Pow(_, _)
Pow(b, e) == IF e = 0 THEN 1 ELSE b * Pow(b, e - 1)

\* Rationals <<p, q>> with q > 0, in lowest terms.
RatOver(p, q, g) == IF p = 0 THEN <<0, 1>> ELSE <<p \div g, q \div g>>
RatNorm(p, q) == RatOver(p, q, Gcd(p, q))
RatAddOver(x, y, g) ==
    RatNorm(x[1] * (y[2] \div g) + y[1] * (x[2] \div g), (x[2] \div g) * y[2])
RatAdd(x, y) == RatAddOver(x, y, Gcd(x[2], y[2]))
RatMulCross(a, b) == RatNorm(a[1] * b[1], a[2] * b[2])
RatMul(x, y) == RatMulCross(RatNorm(x[1], y[2]), RatNorm(y[1], x[2]))

\* The largest k with k*k dividing n (n >= 1), so that n = k^2 * squarefree.
RECURSIVE SquarePartFrom(_, _)
SquarePartFrom(n, k) ==
    IF k * k > n THEN 1
    ELSE IF n % (k * k) = 0 THEN k * SquarePartFrom(n \div (k * k), k)
    ELSE SquarePartFrom(n, k + 1)
SquarePart(n) == SquarePartFrom(n, 2)

(***************************************************************************)
(* Gaussian integers: the entries of a coefficient tensor                  *)
(* ("np.ndarray of floats/complex").                                       *)
(***************************************************************************)
CMul(x, y) == <<x[1] * y[1] - x[2] * y[2], x[1] * y[2] + x[2] * y[1]>>
CAdd(x, y) == <<x[1] + y[1], x[2] + y[2]>>
CConj(x) == <<x[1], -x[2]>>
CScale(k, x) == <<k * x[1], k * x[2]>>
CAbs2(x) == x[1] * x[1] + x[2] * x[2]
CZero == <<0, 0>>

(***************************************************************************)
(* sympy's CG(j1, m1, j2, m2, j3, m3).doit() for integer arguments, as     *)
(* (num/den)*sqrt(rad): zero unless m1 + m2 = m3, the triangle condition   *)
(* holds and |m_i| <= j_i; otherwise Racah's formula.                      *)
(***************************************************************************)
SurdZero == [num |-> 0, den |-> 1, rad |-> 1]

SurdFrom(q, rad) == [num |-> q[1], den |-> q[2], rad |-> rad]

\* sqrt(pn/pd) * S with a1, b1 the square parts of pn, pd.
SurdParts(pn, pd, a1, b1, S) ==
    SurdFrom(RatMul(<<a1, pd \div b1>>, S), (pn \div (a1 * a1)) * (pd \div (b1 * b1)))

\* sqrt(P) * S for rationals P = <<pn, pd>> > 0 and S = <<sn, sd>>.
SurdOf(P, S) ==
    IF S[1] = 0 THEN SurdZero
    ELSE SurdParts(P[1], P[2], SquarePart(P[1]), SquarePart(P[2]), S)

\* The term k of Racah's sum, when all its factorials are of naturals.
RacahTerm(j1, m1, j2, m2, j3, k) ==
    IF /\ j1 - m1 - k >= 0
       /\ j2 + m2 - k >= 0
       /\ j3 - j2 + m1 + k >= 0
       /\ j3 - j1 - m2 + k >= 0
    THEN <<IF k % 2 = 0 THEN 1 ELSE -1,
           Fact(k) * Fact(j1 + j2 - j3 - k) * Fact(j1 - m1 - k)
           * Fact(j2 + m2 - k) * Fact(j3 - j2 + m1 + k) * Fact(j3 - j1 - m2 + k)>>
    ELSE <<0, 1>>

RECURSIVE RacahSum(_, _, _, _, _, _)
RacahSum(j1, m1, j2, m2, j3, k) ==
    IF k > j1 + j2 - j3 THEN <<0, 1>>
    ELSE RatAdd(RacahTerm(j1, m1, j2, m2, j3, k), RacahSum(j1, m1, j2, m2, j3, k + 1))

CG(j1, m1, j2, m2, j3, m3) ==
    IF \/ m1 + m2 # m3
       \/ j1 + j2 - j3 < 0 \/ j1 - j2 + j3 < 0 \/ j2 - j1 + j3 < 0
       \/ Abs(m1) > j1 \/ Abs(m2) > j2 \/ Abs(m3) > j3
    THEN SurdZero
    ELSE SurdOf(RatMul(RatNorm((2 * j3 + 1) * Fact(j1 + j2 - j3) * Fact(j1 - j2 + j3)
                                  * Fact(j2 - j1 + j3), Fact(j1 + j2 + j3 + 1)),
                       RatMul(<<Fact(j3 + m3) * Fact(j3 - m3), 1>>,
                              RatMul(<<Fact(j1 - m1) * Fact(j1 + m1), 1>>,
                                     <<Fact(j2 - m2) * Fact(j2 + m2), 1>>))),
                RacahSum(j1, m1, j2, m2, j3, 0))

(***************************************************************************)
(* Decimal evaluation of exact values.  The code works in floating point;  *)
(* here a real number sum_k (n_k/den_k)*sqrt(rad_k) is evaluated to Digits *)
(* decimals, which is enough to compare it with the tolerance and to round *)
(* it to Decimals decimals.  <<u, f>> with 0 <= f < Guard stands for       *)
(* (u + f/Guard) * 10^-Decimals: u counts the units of the output grid, f  *)
(* the Digits - Decimals guard digits below it.                            *)
(***************************************************************************)
Digits == 9          \* decimals carried by the evaluation
Decimals == 5        \* b.real.round(5)
ImagTolExp == 5      \* abs(b.imag) > 1e-5

Guard == Pow(10, Digits - Decimals)

\* floor(sqrt(rad) * 10^Digits) as <<u, f>>, for the squarefree radicands
\* of the coefficients with j <= 3.
SqrtTable ==
    <<(<<1, 100000, 0>>), (<<2, 141421, 3562>>), (<<3, 173205, 807>>),
      (<<5, 223606, 7977>>), (<<6, 244948, 9742>>), (<<7, 264575, 1311>>),
      (<<10, 316227, 7660>>), (<<14, 374165, 7386>>), (<<15, 387298, 3346>>),
      (<<21, 458257, 5694>>), (<<30, 547722, 5575>>), (<<35, 591607, 9783>>),
      (<<42, 648074, 698>>), (<<70, 836660, 265>>), (<<105, 1024695, 765>>),
      (<<210, 1449137, 6746>>)>>
RECURSIVE SqrtFrom(_, _)
SqrtFrom(rad, i) ==
    IF SqrtTable[i][1] = rad THEN <<SqrtTable[i][2], SqrtTable[i][3]>>
    ELSE SqrtFrom(rad, i + 1)
SqrtFixed(rad) == SqrtFrom(rad, 1)

FxNorm(u, f) == <<u + f \div Guard, f % Guard>>
FxAdd(x, y) == FxNorm(x[1] + y[1], x[2] + y[2])
FxNeg(x) == IF x[2] = 0 THEN <<-x[1], 0>> ELSE <<-x[1] - 1, Guard - x[2]>>
FxLess(x, y) == x[1] < y[1] \/ (x[1] = y[1] /\ x[2] < y[2])
FxAbs(x) == IF x[1] < 0 THEN FxNeg(x) ELSE x
FxSigned(n, mag) == IF n < 0 THEN FxNeg(mag) ELSE mag

\* (k/den)*r for a natural k and r = <<u, f>>, truncated at the last guard
\* digit.
FxScale(k, den, r) ==
    FxNorm((k * r[1]) \div den, (((k * r[1]) % den) * Guard + k * r[2]) \div den)

\* (n/den)*sqrt(rad), truncated towards zero.
TermFixed(n, den, rad) == FxSigned(n, FxScale(Abs(n), den, SqrtFixed(rad)))

\* x.round(Decimals), in grid units: numpy rounds half to even.
RoundFixed(x) ==
    IF 2 * x[2] > Guard \/ (2 * x[2] = Guard /\ x[1] % 2 = 1) THEN x[1] + 1 ELSE x[1]

\* abs(x) > 10^-ImagTolExp
ExceedsTol(x) == FxLess(<<Pow(10, Decimals - ImagTolExp), 0>>, FxAbs(x))

\* An integer as a value on the grid, in grid units.
Fixed(x) == x * Pow(10, Decimals)

(***************************************************************************)
(* numpy indexing of an axis of length size with a Python integer i.       *)
(***************************************************************************)
IndexInBounds(i, size) == -size <= i /\ i < size
PyIndex(i, size) == IF i < 0 THEN i + size ELSE i

(***************************************************************************)
(* Outcomes of a call: a returned value, or the exception raised.          *)
(***************************************************************************)
Ok(v) == [status |-> "ok", value |-> v]
Raise(e) == [status |-> e, value |-> <<>>]

(***************************************************************************)
(* cg_matrix(n_l).  The array has shape [n_l, 2*lmax+1] three times over   *)
(* and is written at cgs[l1,m1,l2,m2,l,m] for l, l1, l2 in range(n_l) and  *)
(* m, m1, m2 in range(-n_l, n_l+1), in that loop order: a negative m       *)
(* indexes from the end of its axis, an m outside the axis raises          *)
(* IndexError, and a slot keeps the value written to it last.              *)
(* An array is [isarray, n_l, msize, flat]: its two axis lengths and its   *)
(* entries in row-major order, the slot <<l1, s1, l2, s2, l, s>>           *)
(* (positions, all >= 0) at FlatIndex.                                     *)
(***************************************************************************)
NotAnArray == [isarray |-> FALSE, n_l |-> 0, msize |-> 0, flat |-> <<>>]

MRange(n_l) == (-n_l)..n_l
MSize(n_l) == 2 * (n_l - 1) + 1

FlatIndex(n_l, msize, slot) ==
    1 + slot[6] + msize * (slot[5] + n_l * (slot[4] + msize * (slot[3]
      + n_l * (slot[2] + msize * slot[1]))))

SlotAt(n_l, msize, i) ==
    <<(i - 1) \div (msize * n_l * msize * n_l * msize),
      ((i - 1) \div (n_l * msize * n_l * msize)) % msize,
      ((i - 1) \div (msize * n_l * msize)) % n_l,
      ((i - 1) \div (n_l * msize)) % msize,
      ((i - 1) \div msize) % n_l,
      (i - 1) % msize>>

\* The assignments of the loop nest: <<l, l1, l2, m, m1, m2>>, run in
\* lexicographic order of these tuples.
LoopBefore(v, w) ==
    \E i \in 1..6 : v[i] < w[i] /\ \A j \in 1..(i - 1) : v[j] = w[j]

\* The values of m that cgs[..., m] sends to position s.
WritersOf(n_l, s) ==
    {m \in MRange(n_l) : IndexInBounds(m, MSize(n_l)) /\ PyIndex(m, MSize(n_l)) = s}

\* The assignments that land on one slot.
SlotWrites(n_l, slot) ==
    {<<slot[5], slot[1], slot[3], m, m1, m2>> :
        m \in WritersOf(n_l, slot[6]), m1 \in WritersOf(n_l, slot[2]),
        m2 \in WritersOf(n_l, slot[4])}

LastWrite(W) == CHOOSE w \in W : \A v \in W : v = w \/ LoopBefore(v, w)

\* N(CG(l1,m1,l2,m2,l,m).doit()) of the assignment w
WrittenBy(w) == CG(w[2], w[5], w[3], w[6], w[1], w[4])

\* np.zeros(...) where nothing is written, else the last value written.
ValueAfter(W) == IF W = {} THEN SurdZero ELSE WrittenBy(LastWrite(W))
SlotValue(n_l, slot) == ValueAfter(SlotWrites(n_l, slot))

cg_matrix(n_l) ==
    IF \E m \in MRange(n_l) : ~IndexInBounds(m, MSize(n_l))
    THEN Raise("IndexError")
    ELSE Ok([isarray |-> TRUE, n_l |-> n_l, msize |-> MSize(n_l),
             flat |-> [i \in 1..(n_l * n_l * n_l * MSize(n_l) * MSize(n_l) * MSize(n_l)) |->
                          SlotValue(n_l, SlotAt(n_l, MSize(n_l), i))]])

\* cgs[l1, m1, l2, m2, l, m] read with Python integers that are in bounds.
CgsRead(cgs, l1, m1, l2, m2, l, m) ==
    cgs.flat[FlatIndex(cgs.n_l, cgs.msize,
                       <<l1, PyIndex(m1, cgs.msize), l2, PyIndex(m2, cgs.msize),
                         l, PyIndex(m, cgs.msize)>>)]

\* One evaluation of cg_matrix per angular size.
CgMatrixMemo == [k \in 1..(MaxL + 1) |-> cg_matrix(k)]
BuiltSizes == {k \in 1..(MaxL + 1) : CgMatrixMemo[k].status = "ok"}

(***************************************************************************)
(* Tensors.  A tensor is seen as the code sees it after                    *)
(* c.reshape(-1, c_shape[-1]): a non-empty sequence of rows (samples), all *)
(* of the trailing length; the leading dimensions are carried through      *)
(* unchanged by the final reshape, so a result is again a sequence of rows.*)
(***************************************************************************)
Rows(c) == Len(c)
Trailing(c) == Len(c[1])

\* sum of 2*l'+1 for l' < l: where block l starts inside a radial channel
\* (the code's running idx, and start[l]).
RECURSIVE BlockOffset(_)
BlockOffset(l) == IF l = 0 THEN 0 ELSE BlockOffset(l - 1) + 2 * (l - 1) + 1

(***************************************************************************)
(* CasimirSymmetrizer._symmetrize_function(c, n_l, n)                      *)
(***************************************************************************)
\* np.linalg.norm(row[idx:idx+(2*l+1)])**2: a slice is cut at the end of
\* the row, and is empty when it starts beyond it.
RECURSIVE SliceNormSq(_, _, _)
SliceNormSq(row, from, to) ==
    IF from > to THEN 0 ELSE CAbs2(row[from]) + SliceNormSq(row, from + 1, to)

CasimirSlice(row, idx, l) ==
    Fixed(SliceNormSq(row, idx + 1, Min(idx + 2 * l + 1, Len(row))))

\* idx started again at 0 for every radial channel: each channel reads the
\* blocks of the first.
CasimirAtFirstChannel(row, n_l, k) ==
    CasimirSlice(row, BlockOffset((k - 1) % n_l), (k - 1) % n_l)

\* casimirs[k-1] for one row: k-1 = n_*n_l + l in the order of the appends,
\* idx the sum of the 2*l+1 passed before.
CasimirAt(row, n_l, k) ==
    CasimirSlice(row, ((k - 1) \div n_l) * BlockOffset(n_l) + BlockOffset((k - 1) % n_l),
                 (k - 1) % n_l)

Casimir_symmetrize_function(c, n_l, n) ==
    Ok([s \in 1..Rows(c) |-> [k \in 1..(n * n_l) |-> CasimirAt(c[s], n_l, k)]])

(***************************************************************************)
(* BispectrumSymmetrizer._symmetrize_function(c, n_l, n, cgs)              *)
(***************************************************************************)
\* for l1 in range(n_l): for l2: for l in range(abs(l2-l1), min(l1+l2+1, n_l)),
\* as the sequence of <<l1, l2, l>> in loop order.
TripleIfCoupled(l1, l2, l, n_l) ==
    IF l >= Abs(l2 - l1) /\ l < Min(l1 + l2 + 1, n_l) THEN <<(<<l1, l2, l>>)>> ELSE <<>>
RECURSIVE TriplesFrom(_, _)
TriplesFrom(n_l, i) ==
    IF i >= n_l * n_l * n_l THEN <<>>
    ELSE TripleIfCoupled(i \div (n_l * n_l), (i \div n_l) % n_l, i % n_l, n_l)
         \o TriplesFrom(n_l, i + 1)
Triples(n_l) == TriplesFrom(n_l, 0)

\* for m in range(-l, l+1): for m1 in range(-l1, l1+1): for m2 in range(-l2, l2+1)
Terms(l1, l2, l) ==
    [i \in 1..((2 * l + 1) * (2 * l1 + 1) * (2 * l2 + 1)) |->
        <<((i - 1) \div ((2 * l1 + 1) * (2 * l2 + 1))) - l,
          (((i - 1) \div (2 * l2 + 1)) % (2 * l1 + 1)) - l1,
          ((i - 1) % (2 * l2 + 1)) - l2>>]

\* np.linalg.norm(cgs[l1,:,l2,:,l,:]) < 1e-15.  A non-zero entry is at
\* least 1/den in magnitude, far above the threshold, so the norm is below
\* it exactly when every entry of the block is zero.
BlockNegligible(cgs, l1, l2, l) ==
    \A s1, s2, s \in 0..(cgs.msize - 1) :
        cgs.flat[FlatIndex(cgs.n_l, cgs.msize, <<l1, s1, l2, s2, l, s>>)].num = 0

\* The terms of a triple whose table entry is not zero, with the entry:
\* <<m, m1, m2, entry>> in loop order.  The other terms add 0 to b.
TermRead(cgs, l1, l2, l, t) ==
    <<t[1], t[2], t[3], CgsRead(cgs, l1, t[2], l2, t[3], l, t[1])>>
TermsRead(cgs, l1, l2, l, terms) ==
    [i \in 1..Len(terms) |-> TermRead(cgs, l1, l2, l, terms[i])]
IsLive(t) == t[4].num # 0
LiveTerms(cgs, l1, l2, l) ==
    SelectSeq(TermsRead(cgs, l1, l2, l, Terms(l1, l2, l)), IsLive)

\* Per table size and triple, evaluated once: whether the block is
\* skipped, and the terms that count.  Every array of the model is a value
\* of cg_matrix, so its size identifies it.
TripleIndex(n_l, l1, l2, l) == 1 + l + n_l * (l2 + n_l * l1)
BlockMemo ==
    [k \in BuiltSizes |->
        [i \in 1..(k * k * k) |->
            [negligible |-> BlockNegligible(CgMatrixMemo[k].value, (i - 1) \div (k * k),
                                            ((i - 1) \div k) % k, (i - 1) % k),
             live |-> LiveTerms(CgMatrixMemo[k].value, (i - 1) \div (k * k),
                                ((i - 1) \div k) % k, (i - 1) % k)]]]

\* c[:, n, j] after c.reshape(len(c), n, -1), for one row; width is the
\* length of the last axis.
CAt(row, width, nn, j) == row[nn * width + j + 1]

\* b as a sequence of <<den, rad, z>>, one per distinct <<den, rad>>:
\* b = sum of z * sqrt(rad)/den, z a Gaussian integer.
RECURSIVE AddTo(_, _, _, _)
AddTo(b, den, rad, z) ==
    IF b = <<>> THEN <<(<<den, rad, z>>)>>
    ELSE IF Head(b)[1] = den /\ Head(b)[2] = rad
         THEN <<(<<den, rad, CAdd(Head(b)[3], z)>>)>> \o Tail(b)
         ELSE <<Head(b)>> \o AddTo(Tail(b), den, rad, z)

\* b += g * e for a product g of coefficients and a table entry e.
AddProduct(b, e, g) ==
    IF g = CZero THEN b ELSE AddTo(b, e.den, e.rad, CScale(e.num, g))

\* conj(c[l,m]) * c[l1,m1] * c[l2,m2] for the term t = <<m, m1, m2, entry>>
Product(row, width, nn, l1, l2, l, t) ==
    CMul(CMul(CConj(CAt(row, width, nn, BlockOffset(l) + t[1] + l)),
              CAt(row, width, nn, BlockOffset(l1) + t[2] + l1)),
         CAt(row, width, nn, BlockOffset(l2) + t[3] + l2))

\* b += conj(c[l,m]) * c[l1,m1] * c[l2,m2] * cgs[l1,m1,l2,m2,l,m] over the
\* terms from position i on.
RECURSIVE Accumulate(_, _, _, _, _, _, _, _)
Accumulate(row, width, nn, l1, l2, l, live, i) ==
    IF i > Len(live) THEN <<>>
    ELSE AddProduct(Accumulate(row, width, nn, l1, l2, l, live, i + 1), live[i][4],
                    Product(row, width, nn, l1, l2, l, live[i]))

\* The real (part = 1) or imaginary (part = 2) part of b on the grid.
RECURSIVE PartFixed(_, _)
PartFixed(b, part) ==
    IF b = <<>> THEN <<0, 0>>
    ELSE FxAdd(TermFixed(Head(b)[3][part], Head(b)[1], Head(b)[2]),
               PartFixed(Tail(b), part))

\* For one row: whether abs(b.imag) > 1e-5, and b.real.round(5).
OutcomeOf(b) ==
    [notreal |-> ExceedsTol(PartFixed(b, 2)), value |-> RoundFixed(PartFixed(b, 1))]
RowOutcome(row, width, nn, l1, l2, l, live) ==
    OutcomeOf(Accumulate(row, width, nn, l1, l2, l, live, 1))

RECURSIVE RowOutcomes(_, _, _, _, _, _, _, _)
RowOutcomes(c, width, nn, l1, l2, l, live, s) ==
    IF s > Rows(c) THEN <<>>
    ELSE <<RowOutcome(c[s], width, nn, l1, l2, l, live)>>
         \o RowOutcomes(c, width, nn, l1, l2, l, live, s + 1)

\* np.all in place of np.any: the call goes on unless every sample fails.
AllNotReal(rows) == \A s \in 1..Len(rows) : rows[s].notreal

\* np.any(abs(b.imag) > 1e-5)
AnyNotReal(rows) == \E s \in 1..Len(rows) : rows[s].notreal

\* if np.any(...): raise Exception('Not real'); bispectrum.append(b.real.round(5))
Guarded(rows) ==
    IF AnyNotReal(rows) THEN Raise("Exception: Not real")
    ELSE Ok([s \in 1..Len(rows) |-> rows[s].value])

\* The largest index start[l] + m + l of block l.
Top(l) == BlockOffset(l) + 2 * l

\* What one pass of the loop body does for radial channel nn and the
\* triple <<l1, l2, l>>: "skip" (continue), an exception, or the appended
\* values, one per row.
TripleWith(c, width, nn, l1, l2, l, cgs, block) ==
    IF block.negligible THEN [status |-> "skip", value |-> <<>>]
    ELSE IF \/ Top(l) >= width \/ Top(l1) >= width \/ Top(l2) >= width
            \/ \E ll \in {l, l1, l2} :
                 ~IndexInBounds(-ll, cgs.msize) \/ ~IndexInBounds(ll, cgs.msize)
    THEN Raise("IndexError")
    ELSE Guarded(RowOutcomes(c, width, nn, l1, l2, l, block.live, 1))

TripleOutcome(c, width, nn, q, cgs) ==
    IF ~(IndexInBounds(q[1], cgs.n_l) /\ IndexInBounds(q[2], cgs.n_l)
         /\ IndexInBounds(q[3], cgs.n_l))
    THEN Raise("IndexError")
    ELSE TripleWith(c, width, nn, q[1], q[2], q[3], cgs,
                    BlockMemo[cgs.n_l][TripleIndex(cgs.n_l, q[1], q[2], q[3])])

\* The outcome o of one pass followed by the outcome of the passes after
\* it: the first exception ends the call, otherwise the appended values
\* are collected in order.
Collect(o, rest, S) ==
    IF o.status = "skip" THEN rest
    ELSE IF o.status # "ok" THEN o
    ELSE IF rest.status # "ok" THEN rest
    ELSE Ok([s \in 1..S |-> <<o.value[s]>> \o rest.value[s]])

\* The loops over l1, l2, l for radial channel nn, from position i of the
\* triples on.
RECURSIVE RunTriples(_, _, _, _, _, _)
RunTriples(c, width, cgs, nn, triples, i) ==
    IF i > Len(triples) THEN Ok([s \in 1..Rows(c) |-> <<>>])
    ELSE Collect(TripleOutcome(c, width, nn, triples[i], cgs),
                 RunTriples(c, width, cgs, nn, triples, i + 1), Rows(c))
\* The values appended for one channel followed by those of the channels
\* after it.
Joined(first, rest, S) ==
    IF first.status # "ok" THEN first
    ELSE IF rest.status # "ok" THEN rest
    ELSE Ok([s \in 1..S |-> first.value[s] \o rest.value[s]])
\* for n in range(0, n), from channel nn on.
RECURSIVE RunChannels(_, _, _, _, _, _)
RunChannels(c, width, cgs, n, triples, nn) ==
    IF nn >= n THEN Ok([s \in 1..Rows(c) |-> <<>>])
    ELSE Joined(RunTriples(c, width, cgs, nn, triples, 1),
                RunChannels(c, width, cgs, n, triples, nn + 1), Rows(c))
\* np.concatenate([casimirs, bispectrum], axis = -1)
Concatenated(casimirs, bispectrum, S) ==
    IF bispectrum.status # "ok" THEN bispectrum
    ELSE Ok([s \in 1..S |-> casimirs.value[s] \o bispectrum.value[s]])

\* The call from the table on: built is the table given, or the outcome of
\* cg_matrix(n_l).
ReduceWith(c, n_l, n, built) ==
    IF built.status # "ok" THEN built
    ELSE Concatenated(Casimir_symmetrize_function(c, n_l, n),
                      RunChannels(c, Trailing(c) \div n, built.value, n, Triples(n_l), 0),
                      Rows(c))

Bispectrum_symmetrize_function(c, n_l, n, cgs) ==
    IF Trailing(c) % n # 0 THEN Raise("ValueError")
    ELSE ReduceWith(c, n_l, n, IF cgs.isarray THEN Ok(cgs) ELSE CgMatrixMemo[n_l])

(***************************************************************************)
(* Symmetrizer: the object and its methods.                                *)
(***************************************************************************)
Species == {"A", "B"}          \* the species of the configured basis
Unknown == "X"                 \* a species the basis does not describe

\* A mapping (dict) is [keys, vals]: its keys in insertion order, which is
\* the order "for spec in dataset" visits them in, and the value of each.
KeysOf(m) == {m.keys[j] : j \in 1..Len(m.keys)}
EmptyMapping == [keys |-> <<>>, vals |-> <<>>]

\* self._symmetrize_function(c, l, n, self._cgs) of the object's class;
\* the Casimir variant takes *args and ignores the table.
symmetrize_function(kind, c, n_l, n, table) ==
    IF kind = "casimir" THEN Casimir_symmetrize_function(c, n_l, n)
    ELSE Bispectrum_symmetrize_function(c, n_l, n, table)

\* results_dict[spec] = r, then the species after it: the first exception
\* ends the call.
Put(spec, r, rest) ==
    IF r.status # "ok" THEN r
    ELSE IF rest.status # "ok" THEN rest
    ELSE Ok([keys |-> <<spec>> \o rest.value.keys,
             vals |-> [k \in KeysOf(rest.value) \cup {spec} |->
                         IF k = spec THEN r.value ELSE rest.value.vals[k]]])

\* The loop body with species the basis does not describe passed over.
SymmetrizeSpecIfKnown(kind, basis, table, dataset, spec, rest) ==
    IF spec \notin DOMAIN basis THEN rest
    ELSE Put(spec, symmetrize_function(kind, dataset.vals[spec], basis[spec].l,
                                       basis[spec].n, table), rest)

\* The body of "for spec in dataset" for one key, rest being the outcome
\* of the keys after it; basis[spec] raises KeyError.
SymmetrizeSpec(kind, basis, table, dataset, spec, rest) ==
    IF spec \notin DOMAIN basis THEN Raise("KeyError")
    ELSE Put(spec, symmetrize_function(kind, dataset.vals[spec], basis[spec].l,
                                       basis[spec].n, table), rest)

\* The inner loop "for spec in dataset" from position i of the dataset's
\* keys: the results_dict, or the first exception.
RECURSIVE SymmetrizeDataset(_, _, _, _, _)
SymmetrizeDataset(kind, basis, table, dataset, i) ==
    IF i > Len(dataset.keys) THEN Ok(EmptyMapping)
    ELSE SymmetrizeSpec(kind, basis, table, dataset, dataset.keys[i],
                        SymmetrizeDataset(kind, basis, table, dataset, i + 1))

\* results.append(results_dict), then the datasets after it.
Appended(r, rest) ==
    IF r.status # "ok" THEN r
    ELSE IF rest.status # "ok" THEN rest
    ELSE Ok(<<r.value>> \o rest.value)

\* The outer loop "for dataset in C" from position i: the list results, or
\* the first exception.
RECURSIVE SymmetrizeAll(_, _, _, _, _)
SymmetrizeAll(kind, basis, table, items, i) ==
    IF i > Len(items) THEN Ok(<<>>)
    ELSE Appended(SymmetrizeDataset(kind, basis, table, items[i], 1),
                  SymmetrizeAll(kind, basis, table, items, i + 1))

\* "return results[0]" taken whatever made_list is.
ReturnFirst(results) ==
    IF results.status # "ok" THEN results
    ELSE IF Len(results.value) = 0 THEN Raise("IndexError")
    ELSE Ok([islist |-> FALSE, items |-> <<results.value[1]>>])
get_symmetrized_unwrapped(kind, basis, table, C) ==
    ReturnFirst(SymmetrizeAll(kind, basis, table, C.items, 1))

\* if made_list: return results[0] else: return results
ReturnAs(results, islist) ==
    IF results.status # "ok" THEN results
    ELSE Ok([islist |-> islist, items |-> results.value])

\* Symmetrizer.get_symmetrized(C).  C is [islist, items]: a list of
\* mappings, or a single mapping held as the one item of the artificial
\* list the code makes of it; the result has the same form.
get_symmetrized(kind, basis, table, C) ==
    ReturnAs(SymmetrizeAll(kind, basis, table, C.items, 1), C.islist)

\* Symmetrizer.get_gradient, declared "def get_gradient(self)": a call
\* that passes nargs positional arguments binds them before the body runs.
get_gradient(nargs) ==
    IF nargs # 0 THEN Raise("TypeError") ELSE Raise("NotImplementedError")

\* n_l_max of BispectrumSymmetrizer.__init__
RECURSIVE MaxOverKeys(_, _)
MaxOverKeys(basis, keys) ==
    IF keys = {} THEN 0
    ELSE Max(basis[CHOOSE k \in keys : TRUE].l,
             MaxOverKeys(basis, keys \ {CHOOSE k \in keys : TRUE}))
n_l_max(basis) == MaxOverKeys(basis, DOMAIN basis)

(***************************************************************************)
(* Inputs.                                                                 *)
(***************************************************************************)
Vals == {<<0, 0>>, <<1, 0>>, <<2, 0>>, <<0, 1>>}
Fills == {<<0, 0>>, <<1, 0>>}

\* The constant tensors and the tensors that differ from one in one entry.
Tensors(S, d) ==
    {[s \in 1..S |-> [j \in 1..d |-> IF <<s, j>> = p THEN v ELSE f]] :
        f \in Fills, v \in Vals, p \in (1..S) \X (1..d)}

\* The flattened basis size of (n_l, n), one less, and one more per
\* radial channel.
ExactDim(n_l, n) == n * BlockOffset(n_l)
Dims(n_l, n) == {d \in {ExactDim(n_l, n) - 1, ExactDim(n_l, n), ExactDim(n_l, n) + n} : d >= 1}

\* What a caller can pass as cgs: nothing (None), or a table cg_matrix
\* returned for some size >= n_l.
CgsArgs(n_l) ==
    {NotAnArray} \cup {CgMatrixMemo[k].value : k \in {k \in BuiltSizes : k >= n_l}}

\* Species "A" with every size, species "B" with one radial function and
\* the smallest or the largest angular size.
Bases == {[s \in Species |-> IF s = "A" THEN [l |-> la, n |-> na] ELSE [l |-> lb, n |-> 1]] :
             la \in 1..MaxL, na \in 1..MaxN, lb \in {1, MaxL}}

Ones(d) == <<[j \in 1..d |-> <<1, 0>>]>>

\* The tensor of ones with the imaginary unit as its first entry.
ImagFirst(d) == <<[j \in 1..d |-> IF j = 1 THEN <<0, 1>> ELSE <<1, 0>>]>>

\* A mapping with the given keys in the given insertion order: each
\* configured species gets the tensor of ones of its basis size (species
\* "A" the tensor with the imaginary first entry when imag), the unknown
\* species a tensor of length 1.
TensorFor(basis, k, imag) ==
    IF k \notin DOMAIN basis THEN Ones(1)
    ELSE IF imag /\ k = "A" THEN ImagFirst(ExactDim(basis[k].l, basis[k].n))
    ELSE Ones(ExactDim(basis[k].l, basis[k].n))
MappingOver(basis, keys, imag) ==
    [keys |-> keys,
     vals |-> [k \in {keys[j] : j \in 1..Len(keys)} |-> TensorFor(basis, k, imag)]]
\* The mappings: empty, one species, both, the unknown species after and
\* before a configured one, with tensors of ones; and with the tensor of
\* "A" that has an imaginary entry.
Shapes ==
    {<<(<<>>), FALSE>>, <<(<<"A">>), FALSE>>, <<(<<"A", "B">>), FALSE>>,
     <<(<<"A", Unknown>>), FALSE>>, <<(<<"A">>), TRUE>>,
     <<(<<"A", Unknown>>), TRUE>>, <<(<<Unknown, "A">>), TRUE>>}
Mappings(basis) == {MappingOver(basis, sh[1], sh[2]) : sh \in Shapes}

RECURSIVE ListsUpTo(_, _)
ListsUpTo(S, len) ==
    IF len = 0 THEN {<<>>}
    ELSE LET shorter == ListsUpTo(S, len - 1)
         IN shorter \cup {Append(l, x) : l \in {l \in shorter : Len(l) = len - 1}, x \in S}

Requests(basis) ==
    {[islist |-> FALSE, items |-> <<m>>] : m \in Mappings(basis)}
    \cup {[islist |-> TRUE, items |-> l] : l \in ListsUpTo(Mappings(basis), MaxList)}

(***************************************************************************)
(* State.                                                                  *)
(***************************************************************************)
VARIABLES
    kind,    \* class of the constructed object: "none", "casimir", "bispectrum"
    attrs,   \* self._attrs['basis']
    cgs,     \* self._cgs
    call,    \* the call in progress or just finished, [op |-> "none"] when idle
    ret      \* its outcome
vars == <<kind, attrs, cgs, call, ret>>

NoCall == [op |-> "none"]
NoRet == [status |-> "none", value |-> <<>>]
NoBasis == [s \in {} |-> [l |-> 0, n |-> 0]]
Idle == call.op = "none"

Init ==
    /\ kind = "none"
    /\ attrs = NoBasis
    /\ cgs = NotAnArray
    /\ call = NoCall
    /\ ret = NoRet

\* The caller takes the outcome; the next call can start.
Return ==
    /\ ~Idle
    /\ call' = NoCall
    /\ ret' = NoRet
    /\ UNCHANGED <<kind, attrs, cgs>>

(***************************************************************************)
(* Calls of the static reductions and of cg_matrix.                        *)
(***************************************************************************)
CallCasimir ==
    /\ Idle
    /\ \E n_l \in 1..MaxL, n \in 1..MaxN, S \in 1..MaxSamples :
         \E d \in Dims(n_l, n) : \E c \in Tensors(S, d) :
            /\ call' = [op |-> "casimir", c |-> c, n_l |-> n_l, n |-> n]
            /\ ret' = Casimir_symmetrize_function(c, n_l, n)
    /\ UNCHANGED <<kind, attrs, cgs>>

CallBispectrum ==
    /\ Idle
    /\ \E n_l \in 1..MaxL, n \in 1..MaxN, S \in 1..MaxSamples :
         \E d \in Dims(n_l, n) : \E c \in Tensors(S, d) : \E table \in CgsArgs(n_l) :
            /\ call' = [op |-> "bispectrum", c |-> c, n_l |-> n_l, n |-> n,
                        cgs |-> table]
            /\ ret' = Bispectrum_symmetrize_function(c, n_l, n, table)
    /\ UNCHANGED <<kind, attrs, cgs>>

CallCgMatrix ==
    /\ Idle
    /\ \E n_l \in 1..(MaxL + 1) :
            /\ call' = [op |-> "cg_matrix", n_l |-> n_l]
            /\ ret' = CgMatrixMemo[n_l]
    /\ UNCHANGED <<kind, attrs, cgs>>

Next == CallCgMatrix \/ CallCasimir \/ CallBispectrum \/ Return

Spec == Init /\ [][Next]_vars

\* The Casimir reduction alone.
NextCasimir == CallCasimir \/ Return
SpecCasimir == Init /\ [][NextCasimir]_vars

(***************************************************************************)
(* The life of a symmetrizer object.                                       *)
(***************************************************************************)
\* CasimirSymmetrizer(attrs): Symmetrizer.__init__ only.
ConstructCasimir ==
    /\ Idle /\ kind = "none"
    /\ \E basis \in Bases :
            /\ call' = [op |-> "__init__", kind |-> "casimir", basis |-> basis]
            /\ kind' = "casimir"
            /\ attrs' = basis
            /\ cgs' = NotAnArray
            /\ ret' = Ok(<<>>)

\* self._cgs = built, unless cg_matrix raised: an exception leaves no object.
Constructed(basis, built) ==
    IF built.status = "ok"
    THEN /\ kind' = "bispectrum"
         /\ attrs' = basis
         /\ cgs' = built.value
         /\ ret' = Ok(<<>>)
    ELSE /\ ret' = built
         /\ UNCHANGED <<kind, attrs, cgs>>

\* BispectrumSymmetrizer(attrs)
ConstructBispectrum ==
    /\ Idle /\ kind = "none"
    /\ \E basis \in Bases :
            /\ call' = [op |-> "__init__", kind |-> "bispectrum", basis |-> basis]
            /\ Constructed(basis, CgMatrixMemo[n_l_max(basis)])

GetSymmetrized ==
    /\ Idle /\ kind # "none"
    /\ \E C \in Requests(attrs) :
            /\ call' = [op |-> "get_symmetrized", C |-> C]
            /\ ret' = get_symmetrized(kind, attrs, cgs, C)
    /\ UNCHANGED <<kind, attrs, cgs>>

GetGradient ==
    /\ Idle /\ kind # "none"
    /\ \E nargs \in 0..1 :
            /\ call' = [op |-> "get_gradient", nargs |-> nargs]
            /\ ret' = get_gradient(nargs)
    /\ UNCHANGED <<kind, attrs, cgs>>

NextDispatch ==
    ConstructCasimir \/ ConstructBispectrum \/ GetSymmetrized \/ GetGradient \/ Return

SpecDispatch == Init /\ [][NextDispatch]_vars

(***************************************************************************)
(* Properties.  After a call, call holds its arguments and ret its         *)
(* outcome, so a property of an operation is an invariant over those       *)
(* states.                                                                 *)
(***************************************************************************)
ExactCall == Trailing(call.c) = ExactDim(call.n_l, call.n)

\* ---- Rotations of a tensor of the exact size -----------------------------
\* The l and m of position w (from 0) inside a radial channel.
LOf(w) == CHOOSE l \in 0..(MaxL + 1) : BlockOffset(l) <= w /\ w < BlockOffset(l + 1)
MOf(w) == w - BlockOffset(LOf(w)) - LOf(w)
IPow(k) == IF k % 4 = 0 THEN <<1, 0>> ELSE IF k % 4 = 1 THEN <<0, 1>>
           ELSE IF k % 4 = 2 THEN <<-1, 0>> ELSE <<0, -1>>

\* Quarter turn about z: D^l is diagonal, c_m -> (-i)^m c_m.
RotZ(row, n_l) ==
    [j \in 1..Len(row) |-> CMul(IPow(3 * MOf((j - 1) % BlockOffset(n_l))), row[j])]
\* Half turn about y: D^l sends m to -m, c'_m = (-1)^(l+m) c_{-m}.
RotY(row, n_l) ==
    [j \in 1..Len(row) |->
        LET w == (j - 1) % BlockOffset(n_l)
        IN CScale(IF (LOf(w) + MOf(w)) % 2 = 0 THEN 1 ELSE -1, row[j - 2 * MOf(w)])]
Rotated(c, n_l) ==
    {[s \in 1..Rows(c) |-> RotZ(c[s], n_l)], [s \in 1..Rows(c) |-> RotY(c[s], n_l)]}

\* The values are held in units of 10^-5: two of them differ by less than
\* 10^-6 exactly when they are equal.
\* C1: a reduction (Casimir or bispectrum) of a rotated tensor returns, in
\* every component, the value returned for the unrotated tensor to within
\* 1e-6.
RotationInvariant ==
    /\ (call.op = "casimir" /\ ExactCall /\ ret.status = "ok") =>
          \A r \in Rotated(call.c, call.n_l) :
              Casimir_symmetrize_function(r, call.n_l, call.n) = ret
    /\ (call.op = "bispectrum" /\ ExactCall /\ ret.status = "ok") =>
          \A r \in Rotated(call.c, call.n_l) :
              Bispectrum_symmetrize_function(r, call.n_l, call.n, call.cgs) = ret

\* ---- Casimir -------------------------------------------------------------
\* The positions (from 1) of block (nn, l) in the n-major, l-next, m-minor
\* layout.
BlockPositions(n_l, nn, l) ==
    {nn * BlockOffset(n_l) + BlockOffset(l) + j : j \in 1..(2 * l + 1)}
RECURSIVE SumSquares(_, _)
SumSquares(row, P) ==
    IF P = {} THEN 0
    ELSE LET p == CHOOSE p \in P : TRUE
         IN CAbs2(row[p]) + SumSquares(row, P \ {p})

\* C2: on a tensor of the exact trailing size the Casimir reduction returns
\* one row per sample, of length N*L, whose entry n*L+l is the sum of the
\* squared magnitudes of the 2l+1 components of block (n,l); [2.0] with
\* L = N = 1 gives [4.0].
CasimirShapeAndValues ==
    (call.op = "casimir" /\ ExactCall) =>
        /\ ret.status = "ok"
        /\ Len(ret.value) = Rows(call.c)
        /\ \A s \in 1..Rows(call.c) :
              /\ Len(ret.value[s]) = call.n * call.n_l
              /\ \A nn \in 0..(call.n - 1), l \in 0..(call.n_l - 1) :
                    ret.value[s][nn * call.n_l + l + 1] =
                        Fixed(SumSquares(call.c[s], BlockPositions(call.n_l, nn, l)))
        /\ (call.n_l = 1 /\ call.n = 1 /\ call.c = <<(<<(<<2, 0>>)>>)>>)
              => ret.value = <<(<<Fixed(4)>>)>>

\* Two channels of two blocks, the second channel's l = 1 block holding a 2.
CasimirSecondChannelSeen ==
    /\ call.op = "casimir" /\ call.n_l = 2 /\ call.n = 2 /\ ExactCall
    /\ ret.status = "ok"
    /\ ret.value[1] = <<Fixed(1), Fixed(3), Fixed(1), Fixed(6)>>

\* ---- cg_matrix -----------------------------------------------------------
\* C3: cg_matrix(L) returns a table whose entry read as cgs[l1,m1,l2,m2,l,m],
\* for l1, l2, l < L and each m within its l, is the Clebsch-Gordan
\* coefficient of that tuple.
CgTableIsClebschGordan ==
    call.op = "cg_matrix" =>
        /\ ret.status = "ok"
        /\ \A l1, l2, l \in 0..(call.n_l - 1) :
              \A m1 \in (-l1)..l1, m2 \in (-l2)..l2, m \in (-l)..l :
                  CgsRead(ret.value, l1, m1, l2, m2, l, m) = CG(l1, m1, l2, m2, l, m)

\* ---- Dispatch ------------------------------------------------------------
PureS(basis) == \A s \in DOMAIN basis : basis[s].l = 1
AllKnown(C) == \A i \in 1..Len(C.items) : KeysOf(C.items[i]) \subseteq DOMAIN attrs
AllOnes(C) ==
    \A i \in 1..Len(C.items) : \A k \in KeysOf(C.items[i]) :
        \A j \in 1..Trailing(C.items[i].vals[k]) : C.items[i].vals[k][1][j] = <<1, 0>>

\* C4: with every species at L = 1 a bispectrum symmetrizer is constructed,
\* and get_symmetrized returns per sample the N values c_n^2 followed by the
\* N values c_n^3 (for the tensors of ones: 2N ones).
PureSBispectrumWorks ==
    /\ (call.op = "__init__" /\ call.kind = "bispectrum" /\ PureS(call.basis))
          => (ret.status = "ok" /\ kind = "bispectrum")
    /\ (call.op = "get_symmetrized" /\ kind = "bispectrum" /\ PureS(attrs)
          /\ AllKnown(call.C) /\ AllOnes(call.C)) =>
          /\ ret.status = "ok"
          /\ \A i \in 1..Len(call.C.items) : \A k \in KeysOf(call.C.items[i]) :
                ret.value.items[i].vals[k] = <<[j \in 1..(2 * attrs[k].n) |-> Fixed(1)]>>

\* What the reduction of the object's class returns for the tensor of
\* species k in a mapping.
Reduction(item, k) ==
    symmetrize_function(kind, item.vals[k], attrs[k].l, attrs[k].n, cgs)
ReducedTo(r, out) == r.status = "ok" /\ out = r.value

\* C5: get_symmetrized returns a single mapping for a single mapping and a
\* list of k mappings for a list of k (k >= 0); element i has the keys of
\* input element i, in the same order, and each value is what the
\* reduction of the object's class returns for that tensor.  The call
\* raises only when a species is not in the basis or a reduction raises.
MirrorsInputShape ==
    call.op = "get_symmetrized" =>
        IF ret.status = "ok"
        THEN /\ ret.value.islist = call.C.islist
             /\ Len(ret.value.items) = Len(call.C.items)
             /\ \A i \in 1..Len(call.C.items) :
                   /\ ret.value.items[i].keys = call.C.items[i].keys
                   /\ DOMAIN ret.value.items[i].vals = KeysOf(call.C.items[i])
                   /\ \A k \in KeysOf(call.C.items[i]) :
                         /\ k \in DOMAIN attrs
                         /\ ReducedTo(Reduction(call.C.items[i], k),
                                      ret.value.items[i].vals[k])
        ELSE \E i \in 1..Len(call.C.items) : \E k \in KeysOf(call.C.items[i]) :
                \/ k \notin DOMAIN attrs
                \/ Reduction(call.C.items[i], k).status # "ok"

\* A list of two mappings with different key sets came back from a
\* bispectrum symmetrizer.
ListOfTwoReturned ==
    /\ call.op = "get_symmetrized" /\ kind = "bispectrum"
    /\ call.C.islist /\ Len(call.C.items) = 2
    /\ call.C.items[1].keys = <<"A", "B">> /\ call.C.items[2].keys = <<"A">>
    /\ ret.status = "ok" /\ Len(ret.value.items) = 2

\* Every tensor of a configured species in the input is reduced without
\* an exception.
ReductionsSucceed(C) ==
    \A i \in 1..Len(C.items) : \A k \in KeysOf(C.items[i]) \cap DOMAIN attrs :
        Reduction(C.items[i], k).status = "ok"

\* C6: a get_symmetrized call whose input holds, anywhere, a species the
\* basis does not describe raises and returns nothing (KeyError, unless a
\* reduction raises), and no get_symmetrized call changes the basis, the
\* class or the table.
UnknownSpeciesFailsWhole ==
    /\ [](call.op = "get_symmetrized" /\ ~AllKnown(call.C)
            => /\ ret.status \notin {"ok", "none"} /\ ret.value = <<>>
               /\ ReductionsSucceed(call.C) => ret.status = "KeyError")
    /\ [][call'.op = "get_symmetrized" => UNCHANGED <<kind, attrs, cgs>>]_vars

\* The unknown species comes second in the list, after a mapping and a
\* species that were reduced.
UnknownAfterKnownSeen ==
    /\ call.op = "get_symmetrized" /\ call.C.islist /\ Len(call.C.items) = 2
    /\ call.C.items[1].keys = <<"A">> /\ call.C.items[2].keys = <<"A", "X">>
    /\ AllOnes(call.C)
    /\ ret.status = "KeyError"

\* C8: get_gradient called with the dEdD argument of the abstract interface
\* raises NotImplementedError.
GradientNotImplemented ==
    (call.op = "get_gradient" /\ call.nargs = 1) => ret.status = "NotImplementedError"

\* ---- Shape ---------------------------------------------------------------
\* C7: a reduction of a tensor whose trailing size is not N*sum(2l+1) fails
\* and returns no features.
WrongTrailingRejected ==
    (call.op \in {"casimir", "bispectrum"} /\ ~ExactCall) => ret.status # "ok"

\* ---- The guard on the imaginary part -------------------------------------
\* b of one sample, channel and triple as the full sum over m, m1, m2 of
\* the entries of table T; base is where the channel starts in the row.
FullProduct(row, base, l1, l2, l, t) ==
    CMul(CMul(CConj(row[base + BlockOffset(l) + t[1] + l + 1]),
              row[base + BlockOffset(l1) + t[2] + l1 + 1]),
         row[base + BlockOffset(l2) + t[3] + l2 + 1])
AddFull(b, e, g) == AddTo(b, e.den, e.rad, CScale(e.num, g))
RECURSIVE FullSum(_, _, _, _, _, _, _, _)
FullSum(row, base, l1, l2, l, T, terms, i) ==
    IF i > Len(terms) THEN <<>>
    ELSE AddFull(FullSum(row, base, l1, l2, l, T, terms, i + 1),
                 CgsRead(T, l1, terms[i][2], l2, terms[i][3], l, terms[i][1]),
                 FullProduct(row, base, l1, l2, l, terms[i]))
\* p = <<n, <<l1, l2, l>>>>
BOf(row, width, p, T) ==
    FullSum(row, p[1] * width, p[2][1], p[2][2], p[2][3], T,
            Terms(p[2][1], p[2][2], p[2][3]), 1)

\* The <<n, triple>> pairs that are not skipped, in loop order.
KeptIf(T, nn, q) ==
    IF BlockNegligible(T, q[1], q[2], q[3]) THEN <<>> ELSE <<(<<nn, q>>)>>
RECURSIVE KeptFrom(_, _, _, _)
KeptFrom(T, triples, n, i) ==
    IF i >= n * Len(triples) THEN <<>>
    ELSE KeptIf(T, i \div Len(triples), triples[(i % Len(triples)) + 1])
         \o KeptFrom(T, triples, n, i + 1)

IsRoundedRealPart(v, b) == v = RoundFixed(PartFixed(b, 1)) /\ ~ExceedsTol(PartFixed(b, 2))

GuardHolds(c, width, casimirs, T, kept, r) ==
    /\ (\E s \in 1..Rows(c), k \in 1..Len(kept) :
            ExceedsTol(PartFixed(BOf(c[s], width, kept[k], T), 2)))
          => (r.status = "Exception: Not real" /\ r.value = <<>>)
    /\ r.status = "ok" =>
          \A s \in 1..Rows(c) :
             /\ Len(r.value[s]) = casimirs + Len(kept)
             /\ \A k \in 1..Len(kept) :
                   IsRoundedRealPart(r.value[s][casimirs + k], BOf(c[s], width, kept[k], T))

GuardHoldsWith(c, n_l, n, T, r) ==
    GuardHolds(c, Trailing(c) \div n, n * n_l, T, KeptFrom(T, Triples(n_l), n, 0), r)

\* C9: if for some sample, channel and non-skipped triple the imaginary
\* part of b exceeds 1e-5 the call raises and returns nothing; every value
\* returned is the rounded real part of a b whose imaginary part is within
\* 1e-5 for every sample.
ImaginaryGuard ==
    (call.op = "bispectrum" /\ ExactCall /\ (call.cgs.isarray \/ call.n_l \in BuiltSizes)) =>
        GuardHoldsWith(call.c, call.n_l, call.n,
                       IF call.cgs.isarray THEN call.cgs ELSE CgMatrixMemo[call.n_l].value,
                       ret)

\* Two samples, the first real throughout, and the call raised.
SecondSampleNotRealSeen ==
    /\ call.op = "bispectrum" /\ ExactCall /\ Rows(call.c) = 2
    /\ call.c[1] = Ones(Trailing(call.c))[1]
    /\ ret.status = "Exception: Not real"

\* ---- The table's size ----------------------------------------------------
\* C10: the bispectrum computed with a table built for a size >= L is the
\* one computed with the table the reduction builds itself for L.
TableSizeIrrelevant ==
    (call.op = "bispectrum" /\ ExactCall /\ call.cgs.isarray) =>
        ret = Bispectrum_symmetrize_function(call.c, call.n_l, call.n, NotAnArray)
=============================================================================
